---------------------------- MODULE Spec2Model ----------------------------
(***************************************************************************)
(* A model of obsidian_to_jsonld.py: the two-pass note compiler (index     *)
(* build, page/graph emission, concept scheme), its text functions         *)
(* (process_text_links, parse_sections, generate_skos_json,                *)
(* render_section_to_html) and the HTML re-serializer (SmartHTMLFormatter, *)
(* prettify_html).                                                         *)
(*                                                                         *)
(* Text is a sequence of atoms.  An atom is a string: either one character *)
(* that some function of the program treats specially ("[", "]", "|", "(", *)
(* ")", "!", "#", "-", "*", "+", " ", "\n"), or a run of characters that   *)
(* no function treats specially (a letter, a word such as "Broader", a     *)
(* piece of emitted markup such as "</a>").  Concatenating the atoms gives *)
(* the Python string.                                                      *)
(***************************************************************************)
EXTENDS Integers, Sequences, FiniteSets, TLC

VARIABLES
    \* ---- the build (main, pass one, pass two, scheme) ----
    pc,             \* where main is
    srcExists,      \* SOURCE_DIR.exists()
    files,          \* what get_files() yields, in scan order
    i,              \* position of the running for-loop over get_files()
    concept_index,  \* the global Link Index: lower-cased title -> identifier
    all_concepts,   \* all_concepts_data of pass two
    outDir,         \* TRUE once OUTPUT_DIR has been created
    pages,          \* identifier -> what was written to OUTPUT_DIR/<identifier>/index.html
    scheme,         \* what was written to concept-scheme/index.html (a sequence of 0 or 1 documents)
    log,            \* the messages printed
    \* ---- the input of a single function call, built piece by piece ----
    typed,          \* how many pieces the input was built from
    \* ---- one call of process_text_links ----
    line,           \* its argument
    linked,         \* its result (a sequence of 0 or 1 texts)
    \* ---- one note body through parse_sections, generate_skos_json, render ----
    frags,          \* the fragments a body is built from
    content,        \* the note body
    sections,       \* parse_sections(content)      (a sequence of 0 or 1 results)
    skos,           \* generate_skos_json(...)       (a sequence of 0 or 1 results)
    html,           \* the rendered main and aside   (a sequence of 0 or 1 results)
    \* ---- one call of prettify_html, and one on its output ----
    markup,         \* the markup fed to the formatter
    pretty,         \* the results of prettify_html(markup) and of prettify_html on that result
    \* ---- one scan of the markup by a SmartHTMLFormatter, handler call by handler call ----
    scan,           \* the formatter: level, formatted, just_opened_block
    fed             \* how much of the markup the parser has handed to the handlers

buildVars == <<pc, srcExists, files, i, concept_index, all_concepts, outDir, pages, scheme, log>>
linkVars  == <<line, linked>>
noteVars  == <<frags, content, sections, skos, html>>
htmlVars  == <<markup, pretty, scan, fed>>
vars == <<pc, srcExists, files, i, concept_index, all_concepts, outDir, pages, scheme, log,
          typed, line, linked, frags, content, sections, skos, html, markup, pretty,
          scan, fed>>

----------------------------------------------------------------------------
(* Program constants *)

VERSION == "0.0.1"
DOMAIN_URL == "https://vernacular.cloud"

\* None (dict.get on a missing key, a metadata field that is absent)
None == "<None>"

\* Python truthiness of a metadata value or of an index lookup: None and ""
\* are false, every other string is true.
Truthy(v) == v # None /\ v # ""

----------------------------------------------------------------------------
(* Strings *)

\* str.isspace for one character (the whitespace str.strip and \s know)
IsSpace(c) == c \in {" ", "\t", "\n", "\r"}

UpperCase == <<"A", "B", "C", "D", "E", "F", "G", "H", "I", "J", "K", "L", "M",
               "N", "O", "P", "Q", "R", "S", "T", "U", "V", "W", "X", "Y", "Z">>
LowerCase == <<"a", "b", "c", "d", "e", "f", "g", "h", "i", "j", "k", "l", "m",
               "n", "o", "p", "q", "r", "s", "t", "u", "v", "w", "x", "y", "z">>

LowerChar(c) ==
    IF \E k \in 1..26 : UpperCase[k] = c
    THEN LowerCase[CHOOSE k \in 1..26 : UpperCase[k] = c]
    ELSE c

\* str.lower()
Lower(s) == [k \in 1..Len(s) |-> LowerChar(s[k])]

\* the index of the first character from position p on that is not in drop,
\* Len(s)+1 when there is none
RECURSIVE SkipWhile(_, _, _)
SkipWhile(s, p, drop) ==
    IF p > Len(s) \/ s[p] \notin drop THEN p ELSE SkipWhile(s, p + 1, drop)

\* the index of the last character up to position p that is not whitespace, 0 when none
RECURSIVE SkipBackSpace(_, _)
SkipBackSpace(s, p) ==
    IF p < 1 \/ ~IsSpace(s[p]) THEN p ELSE SkipBackSpace(s, p - 1)

Whitespace == {" ", "\t", "\n", "\r"}

\* str.lstrip(chars)
LStripChars(s, drop) == SubSeq(s, SkipWhile(s, 1, drop), Len(s))

\* str.strip()
Strip(s) == SubSeq(s, SkipWhile(s, 1, Whitespace), SkipBackSpace(s, Len(s)))

\* the first position from p on where s holds the character c, 0 when none
RECURSIVE Find(_, _, _)
Find(s, c, p) ==
    IF p > Len(s) THEN 0 ELSE IF s[p] = c THEN p ELSE Find(s, c, p + 1)

\* str.split(sep) for a one-character separator: always at least one piece
RECURSIVE Split(_, _)
Split(s, sep) ==
    LET p == Find(s, sep, 1)
    IN  IF p = 0 THEN <<s>>
        ELSE <<SubSeq(s, 1, p - 1)>> \o Split(SubSeq(s, p + 1, Len(s)), sep)

\* sep.join(parts)
RECURSIVE Join(_, _)
Join(parts, sep) ==
    IF parts = <<>> THEN <<>>
    ELSE IF Len(parts) = 1 THEN parts[1]
    ELSE parts[1] \o <<sep>> \o Join(Tail(parts), sep)

\* dict.get(key) on the Link Index
IndexGet(index, key) == IF key \in DOMAIN index THEN index[key] ELSE None

----------------------------------------------------------------------------
(* clean_link_text and process_text_links *)

\* Where the regex \[\[(.*?)\]\] matches when tried at position p: the
\* position of the closing "]]" (the first one after the opening "[[", the
\* group being lazy), 0 when it does not match at p.  "." matches no newline.
RECURSIVE WikiClose(_, _)
WikiClose(s, q) ==
    IF q + 1 > Len(s) \/ s[q] = "\n" THEN 0
    ELSE IF s[q] = "]" /\ s[q + 1] = "]" THEN q
    ELSE WikiClose(s, q + 1)

WikiMatch(s, p) ==
    IF p + 1 <= Len(s) /\ s[p] = "[" /\ s[p + 1] = "[" THEN WikiClose(s, p + 2) ELSE 0

\* re.search(r'\[\[(.*?)\]\]', s): the leftmost position where it matches, 0 when none
RECURSIVE WikiSearch(_, _)
WikiSearch(s, p) ==
    IF p > Len(s) THEN 0
    ELSE IF WikiMatch(s, p) > 0 THEN p
    ELSE WikiSearch(s, p + 1)

clean_link_text(text) ==
    LET p == WikiSearch(text, 1)
    IN  IF p > 0 THEN SubSeq(text, p + 2, WikiMatch(text, p) - 1) ELSE Strip(text)

\* inner.split('|', 1)
LinkTarget(inner) ==
    LET b == Find(inner, "|", 1) IN IF b > 0 THEN SubSeq(inner, 1, b - 1) ELSE inner

LinkLabel(inner) ==
    LET b == Find(inner, "|", 1) IN IF b > 0 THEN SubSeq(inner, b + 1, Len(inner)) ELSE inner

\* f'<a href="/{VERSION}/{target_uuid}/" class="internal-link">{label_text}</a>'
InternalOpen(uuid) == <<"<a href=\"", "/", VERSION, "/", uuid, "/", "\" class=\"internal-link\">">>

InternalAnchor(uuid, label) == InternalOpen(uuid) \o label \o <<"</a>">>

wiki_link_sub(inner, index) ==
    LET target_clean == Lower(Strip(LinkTarget(inner)))
        target_uuid  == IndexGet(index, target_clean)
    IN  IF Truthy(target_uuid)
        THEN InternalAnchor(target_uuid, LinkLabel(inner))
        ELSE LinkLabel(inner)

\* re.sub(r'\[\[(.*?)\]\]', wiki_link_sub, text), from position p on
RECURSIVE WikiSub(_, _, _)
WikiSub(s, p, index) ==
    IF p > Len(s) THEN <<>>
    ELSE LET q == WikiMatch(s, p)
         IN  IF q > 0
             THEN wiki_link_sub(SubSeq(s, p + 2, q - 1), index) \o WikiSub(s, q + 2, index)
             ELSE <<s[p]>> \o WikiSub(s, p + 1, index)

\* Where the regex (?<!\!)\[([^\]]+)\]\(([^)]+)\) matches when tried at position
\* p: <<position of "]", position of ")">>, <<0, 0>> when it does not match at p.
\* Both groups are maximal runs of a negated class, so each ends at the first
\* "]" (resp. ")") and must not be empty.
MdMatch(s, p) ==
    LET r == Find(s, "]", p + 1)
        e == IF r > 0 THEN Find(s, ")", r + 2) ELSE 0
    IN  IF /\ p <= Len(s) /\ s[p] = "["
           /\ (p = 1 \/ s[p - 1] # "!")
           /\ r > p + 1
           /\ r + 1 <= Len(s) /\ s[r + 1] = "("
           /\ e > r + 2
        THEN <<r, e>> ELSE <<0, 0>>

\* f'<a href="{url}" class="external-link" target="_blank" rel="noopener noreferrer">{label}</a>'
md_link_sub(label, url) ==
    <<"<a href=\"">> \o url
        \o <<"\" class=\"external-link\" target=\"_blank\" rel=\"noopener noreferrer\">">>
        \o label \o <<"</a>">>

\* re.sub(r'(?<!\!)\[([^\]]+)\]\(([^)]+)\)', md_link_sub, text), from position p on
RECURSIVE MdSub(_, _)
MdSub(s, p) ==
    IF p > Len(s) THEN <<>>
    ELSE LET m == MdMatch(s, p)
         IN  IF m[1] > 0
             THEN md_link_sub(SubSeq(s, p + 1, m[1] - 1), SubSeq(s, m[1] + 2, m[2] - 1))
                      \o MdSub(s, m[2] + 1)
             ELSE <<s[p]>> \o MdSub(s, p + 1)

process_text_links(text, index) == MdSub(WikiSub(text, 1, index), 1)

----------------------------------------------------------------------------
(* Python dicts: insertion-ordered keys and a value for each *)

EmptyDict == [keys |-> <<>>, val |-> <<>>]

HasKey(d, k) == \E n \in 1..Len(d.keys) : d.keys[n] = k

\* d[k] = v: a new key goes last, a known key keeps its place
DictSet(d, k, v) ==
    [keys |-> IF HasKey(d, k) THEN d.keys ELSE Append(d.keys, k),
     val  |-> [x \in DOMAIN d.val \cup {k} |-> IF x = k THEN v ELSE d.val[x]]]

----------------------------------------------------------------------------
(* parse_sections *)

\* re.match(r'^#\s+(.*)', line)
HeaderMatch(ln) == Len(ln) >= 2 /\ ln[1] = "#" /\ IsSpace(ln[2])

\* header_match.group(1).strip()
HeaderText(ln) == Strip(SubSeq(ln, SkipWhile(ln, 2, Whitespace), Len(ln)))

\* `elif current_header:` -- current_header is None (<<>> here) or a string
\* (<<h>> here), and the empty string is false like None
HeaderTruthy(cur) == cur # <<>> /\ cur[1] # <<>>

\* the for loop of parse_sections from line n on; secs is `sections`, cur is
\* `current_header`
RECURSIVE ParseLoop(_, _, _, _)
ParseLoop(lines, n, secs, cur) ==
    IF n > Len(lines) THEN secs
    ELSE LET ln == lines[n]
         IN  IF HeaderMatch(ln)
             THEN ParseLoop(lines, n + 1, DictSet(secs, HeaderText(ln), <<>>), <<HeaderText(ln)>>)
             ELSE IF HeaderTruthy(cur) /\ Strip(ln) # <<>>
             THEN ParseLoop(lines, n + 1,
                            DictSet(secs, cur[1], Append(secs.val[cur[1]], Strip(ln))), cur)
             ELSE ParseLoop(lines, n + 1, secs, cur)

parse_sections(text) == ParseLoop(Split(text, "\n"), 1, EmptyDict, <<>>)

----------------------------------------------------------------------------
(* generate_skos_json *)

H_Definition == <<"Definition">>
H_Broader == <<"Broader">>
H_Narrower == <<"Narrower">>
H_Related == <<"Related">>
H_AltLabel == <<"Alternative", " ", "Label">>
H_EditorialNote == <<"Editorial", " ", "Note">>
H_HistoryNote == <<"History", " ", "Note">>
H_ScopeNote == <<"Scope", " ", "Note">>
H_Example == <<"Example">>

\* HEADER_TO_SKOS.get(header)
HEADER_TO_SKOS(header) ==
    CASE header = H_Definition    -> "skos:definition"
      [] header = H_Broader       -> "skos:broader"
      [] header = H_Narrower      -> "skos:narrower"
      [] header = H_Related       -> "skos:related"
      [] header = H_AltLabel      -> "skos:altLabel"
      [] header = H_EditorialNote -> "skos:editorialNote"
      [] header = H_HistoryNote   -> "skos:historyNote"
      [] header = H_ScopeNote     -> "skos:scopeNote"
      [] header = H_Example       -> "skos:example"
      [] OTHER -> None

\* JSON values: a string, a list of strings, an object (the @context)
JStr(t)  == [kind |-> "str",  str |-> t,    list |-> <<>>]
JList(l) == [kind |-> "list", str |-> <<>>, list |-> l]
JObj     == [kind |-> "obj",  str |-> <<>>, list |-> <<>>]

\* f"{DOMAIN}/{VERSION}/{uuid}/"
ConceptUri(uuid) == <<DOMAIN_URL, "/", VERSION, "/", uuid, "/">>

SchemeUri == <<DOMAIN_URL, "/", VERSION, "/", "concept-scheme", "/">>

\* the inner loop over the lines of a Broader, Narrower or Related section
RECURSIVE RelationUris(_, _, _)
RelationUris(lines, n, index) ==
    IF n > Len(lines) THEN <<>>
    ELSE LET link_text   == Lower(clean_link_text(lines[n]))
             target_uuid == IndexGet(index, link_text)
         IN  (IF Truthy(target_uuid) THEN <<ConceptUri(target_uuid)>> ELSE <<>>)
                 \o RelationUris(lines, n + 1, index)

\* (mutant) json_ld[skos_prop] = uris: a single URI stays a one-element list
RelationValue_AlwaysList(uris) == JList(uris)

\* json_ld[skos_prop] = uris if len(uris) > 1 else uris[0]   (when uris)
RelationValue(uris) == IF Len(uris) > 1 THEN JList(uris) ELSE JStr(uris[1])

\* [line.lstrip('- ').strip() for line in lines]
AltLabelItems(lines) == [n \in 1..Len(lines) |-> Strip(LStripChars(lines[n], {"-", " "}))]

\* the body of the loop over sections.items() for one header
SkosStep(json_ld, header, lines, index) ==
    LET skos_prop == HEADER_TO_SKOS(header)
    IN  IF skos_prop = None \/ lines = <<>> THEN json_ld
        ELSE IF header \in {H_Broader, H_Narrower, H_Related}
        THEN LET uris == RelationUris(lines, 1, index)
             IN  IF uris # <<>> THEN DictSet(json_ld, skos_prop, RelationValue(uris))
                 ELSE json_ld
        ELSE IF header = H_AltLabel
        THEN DictSet(json_ld, skos_prop, JList(AltLabelItems(lines)))
        ELSE DictSet(json_ld, skos_prop, JStr(Join(lines, " ")))

RECURSIVE SkosLoop(_, _, _, _)
SkosLoop(json_ld, secs, n, index) ==
    IF n > Len(secs.keys) THEN json_ld
    ELSE SkosLoop(SkosStep(json_ld, secs.keys[n], secs.val[secs.keys[n]], index),
                  secs, n + 1, index)

SkosBase(uuid, title) ==
    [keys |-> <<"@context", "@id", "@type", "skos:prefLabel", "skos:inScheme">>,
     val  |-> [k \in {"@context", "@id", "@type", "skos:prefLabel", "skos:inScheme"} |->
                 CASE k = "@context"       -> JObj
                   [] k = "@id"            -> JStr(ConceptUri(uuid))
                   [] k = "@type"          -> JStr(<<"skos:Concept">>)
                   [] k = "skos:prefLabel" -> JStr(title)
                   [] k = "skos:inScheme"  -> JStr(SchemeUri)]]

generate_skos_json(uuid, title, secs, index) == SkosLoop(SkosBase(uuid, title), secs, 1, index)

----------------------------------------------------------------------------
(* render_section_to_html, render_html_main, render_html_aside *)

\* bullet_pattern = re.compile(r'^[-*+]\s+(.*)')
BulletMatch(stripped) ==
    Len(stripped) >= 2 /\ stripped[1] \in {"-", "*", "+"} /\ IsSpace(stripped[2])

\* bullet_match.group(1): "." stops at a newline
BulletContent(stripped) ==
    LET st == SkipWhile(stripped, 2, Whitespace)
        nl == Find(stripped, "\n", st)
    IN  SubSeq(stripped, st, IF nl = 0 THEN Len(stripped) ELSE nl - 1)

\* stripped.startswith('##')
SubHeadingMatch(stripped) == Len(stripped) >= 2 /\ stripped[1] = "#" /\ stripped[2] = "#"

UL_OPEN == <<"<ul>">>
UL_CLOSE == <<"</ul>">>
ListItem(c) == <<"<li>">> \o c \o <<"</li>">>
SubHeading(c) == <<"<h3>">> \o c \o <<"</h3>">>
Paragraph(c) == <<"<p>">> \o c \o <<"</p>">>

\* (mutant) a paragraph does not close the open list
RenderLine_ParagraphKeepsList(stripped, in_list, index) ==
    IF BulletMatch(stripped)
    THEN (IF in_list THEN <<>> ELSE <<UL_OPEN>>)
            \o <<ListItem(process_text_links(BulletContent(stripped), index))>>
    ELSE IF SubHeadingMatch(stripped)
    THEN (IF in_list THEN <<UL_CLOSE>> ELSE <<>>)
            \o <<SubHeading(process_text_links(Strip(LStripChars(stripped, {"#"})), index))>>
    ELSE <<Paragraph(process_text_links(stripped, index))>>

\* what one non-blank line appends to html_parts, given in_list
RenderLine(stripped, in_list, index) ==
    IF BulletMatch(stripped)
    THEN (IF in_list THEN <<>> ELSE <<UL_OPEN>>)
            \o <<ListItem(process_text_links(BulletContent(stripped), index))>>
    ELSE IF SubHeadingMatch(stripped)
    THEN (IF in_list THEN <<UL_CLOSE>> ELSE <<>>)
            \o <<SubHeading(process_text_links(Strip(LStripChars(stripped, {"#"})), index))>>
    ELSE (IF in_list THEN <<UL_CLOSE>> ELSE <<>>)
            \o <<Paragraph(process_text_links(stripped, index))>>

\* the for loop of render_section_to_html from line n on, and the closing
\* `if in_list` after it: the html_parts appended
RECURSIVE RenderLoop(_, _, _, _)
RenderLoop(lines, n, in_list, index) ==
    IF n > Len(lines) THEN (IF in_list THEN <<UL_CLOSE>> ELSE <<>>)
    ELSE LET stripped == Strip(lines[n])
         IN  IF stripped = <<>> THEN RenderLoop(lines, n + 1, in_list, index)
             ELSE RenderLine(stripped, in_list, index)
                      \o RenderLoop(lines, n + 1, BulletMatch(stripped), index)

html_parts(lines, index) == RenderLoop(lines, 1, FALSE, index)

render_section_to_html(lines, index) == Join(html_parts(lines, index), "\n")

\* sections.get(header)
SectionLines(secs, header) == IF HasKey(secs, header) THEN secs.val[header] ELSE <<>>

main_keys == <<H_Definition, H_Broader, H_Narrower, H_Related>>

SectionHtml(header, lines, index) ==
    << <<"<h2>">> \o header \o <<"</h2>">>, render_section_to_html(lines, index) >>

RECURSIVE MainParts(_, _, _)
MainParts(secs, n, index) ==
    IF n > Len(main_keys) THEN <<>>
    ELSE (IF SectionLines(secs, main_keys[n]) = <<>> THEN <<>>
          ELSE SectionHtml(main_keys[n], SectionLines(secs, main_keys[n]), index))
             \o MainParts(secs, n + 1, index)

render_html_main(secs, index) == Join(MainParts(secs, 1, index), "\n")

RECURSIVE AsideParts(_, _, _)
AsideParts(secs, n, index) ==
    IF n > Len(secs.keys) THEN <<>>
    ELSE LET header == secs.keys[n]
             lines  == secs.val[header]
         IN  (IF lines = <<>> \/ \E m \in 1..Len(main_keys) : main_keys[m] = header
              THEN <<>> ELSE SectionHtml(header, lines, index))
                 \o AsideParts(secs, n + 1, index)

render_html_aside(secs, index) == Join(AsideParts(secs, 1, index), "\n")

----------------------------------------------------------------------------
(* SmartHTMLFormatter and prettify_html *)

\* Markup is text whose atoms are whole tags, declarations and comments
\* ("<div>", "</p>", "<!DOCTYPE html>", "<!--c-->") and single characters of
\* character data ("x", " ", "\n").
StartTags == {"<div>", "<p>", "<b>", "<meta>"}
EndTags == {"</div>", "</p>", "</b>"}
Decls == {"<!DOCTYPE html>"}
Comments == {"<!--c-->"}

\* the tag name HTMLParser hands to handle_starttag / handle_endtag
TagName(a) ==
    CASE a \in {"<div>", "</div>"} -> "div"
      [] a \in {"<p>", "</p>"}     -> "p"
      [] a \in {"<b>", "</b>"}     -> "b"
      [] a = "<meta>"              -> "meta"

structural_tags ==
    {"html", "head", "body", "header", "footer", "main", "aside",
     "section", "div", "ul", "ol", "script", "style", "meta", "link"}

content_tags ==
    {"h1", "h2", "h3", "h4", "h5", "h6", "p", "li", "title", "blockquote", "small"}

void_tags == {"meta", "link", "img", "br", "hr", "input"}

\* SmartHTMLFormatter.__init__: formatted is the list of output pieces
Formatter == [level |-> 0, formatted |-> <<>>, just_opened_block |-> FALSE]

\* piece.endswith('\n')
EndsWithNewline(piece) == piece # <<>> /\ piece[Len(piece)] = "\n"

\* ' ' * n  (the empty string when n <= 0)
Spaces(n) == [k \in 1..n |-> " "]

\* self._add_newline_if_needed()
add_newline_if_needed(self) ==
    IF self.formatted # <<>> /\ ~EndsWithNewline(self.formatted[Len(self.formatted)])
    THEN [self EXCEPT !.formatted = Append(@, <<"\n">>)]
    ELSE self

\* self._indent(), with indent_width = 2
indent(self) == [self EXCEPT !.formatted = Append(@, Spaces(self.level * 2))]

\* self.formatted.append(piece)
Emit(self, piece) == [self EXCEPT !.formatted = Append(@, piece)]

\* (mutant) handle_starttag without the `if tag not in self.void_tags` test
handle_starttag_VoidIndents(self, a) ==
    LET tag == TagName(a)
    IN  IF tag \in structural_tags
        THEN [Emit(indent(add_newline_if_needed(self)), <<a>>)
                EXCEPT !.level = @ + 1, !.just_opened_block = TRUE]
        ELSE IF tag \in content_tags
        THEN [Emit(indent(add_newline_if_needed(self)), <<a>>)
                EXCEPT !.just_opened_block = TRUE]
        ELSE [Emit(self, <<a>>) EXCEPT !.just_opened_block = FALSE]

handle_starttag(self, a) ==
    LET tag == TagName(a)
    IN  IF tag \in structural_tags
        THEN LET out == Emit(indent(add_newline_if_needed(self)), <<a>>)
             IN  IF tag \notin void_tags
                 THEN [out EXCEPT !.level = @ + 1, !.just_opened_block = TRUE]
                 ELSE out
        ELSE IF tag \in content_tags
        THEN [Emit(indent(add_newline_if_needed(self)), <<a>>)
                EXCEPT !.just_opened_block = TRUE]
        ELSE [Emit(self, <<a>>) EXCEPT !.just_opened_block = FALSE]

handle_endtag(self, a) ==
    LET tag == TagName(a)
    IN  IF tag \in structural_tags
        THEN LET closed == IF tag \notin void_tags
                           THEN indent(add_newline_if_needed([self EXCEPT !.level = @ - 1]))
                           ELSE self
             IN  [Emit(closed, <<a>>) EXCEPT !.just_opened_block = FALSE]
        ELSE IF tag \in content_tags
        THEN LET lined == IF self.formatted # <<>>
                               /\ EndsWithNewline(self.formatted[Len(self.formatted)])
                          THEN indent(self) ELSE self
             IN  [Emit(lined, <<a>>) EXCEPT !.just_opened_block = FALSE]
        ELSE Emit(self, <<a>>)

handle_data(self, data) ==
    IF Strip(data) = <<>> THEN self
    ELSE [Emit(self, data) EXCEPT !.just_opened_block = FALSE]

\* self.formatted.append(f"<!{decl}>\n")
handle_decl(self, a) == Emit(self, <<a, "\n">>)

\* the piece appended is the empty string: the comment's text is not kept
handle_comment(self, a) == Emit(indent(add_newline_if_needed(self)), <<>>)

IsMarkup(a) == a \in StartTags \cup EndTags \cup Decls \cup Comments

\* the first position from p on that holds a tag, declaration or comment,
\* Len(text)+1 when there is none: where a run of character data ends
RECURSIVE DataEnd(_, _)
DataEnd(text, p) ==
    IF p > Len(text) \/ IsMarkup(text[p]) THEN p ELSE DataEnd(text, p + 1)

\* formatter.feed(html_content) from position p on: HTMLParser calls one
\* handler per tag, declaration or comment, and handle_data once per run of
\* character data between them
RECURSIVE feed(_, _, _)
feed(self, text, p) ==
    IF p > Len(text) THEN self
    ELSE LET a == text[p]
         IN  IF a \in StartTags THEN feed(handle_starttag(self, a), text, p + 1)
             ELSE IF a \in EndTags THEN feed(handle_endtag(self, a), text, p + 1)
             ELSE IF a \in Decls THEN feed(handle_decl(self, a), text, p + 1)
             ELSE IF a \in Comments THEN feed(handle_comment(self, a), text, p + 1)
             ELSE LET e == DataEnd(text, p)
                  IN  feed(handle_data(self, SubSeq(text, p, e - 1)), text, e)

\* "".join(pieces)
RECURSIVE Concat(_)
Concat(pieces) == IF pieces = <<>> THEN <<>> ELSE pieces[1] \o Concat(Tail(pieces))

\* the last position of the whitespace run starting at p that holds "\n"
\* (p itself holds one)
LastNewline(text, p) ==
    LET e == SkipWhile(text, p, Whitespace) - 1
    IN  CHOOSE m \in p..e : text[m] = "\n" /\ \A n \in (m + 1)..e : text[n] # "\n"

\* re.sub(r'\n\s*\n', '\n', output) from position p on: a newline followed,
\* after any whitespace, by another newline is replaced together with
\* everything up to the last such newline by one newline
RECURSIVE CollapseBlankLines(_, _)
CollapseBlankLines(text, p) ==
    IF p > Len(text) THEN <<>>
    ELSE IF text[p] = "\n"
    THEN <<"\n">> \o CollapseBlankLines(text, LastNewline(text, p) + 1)
    ELSE <<text[p]>> \o CollapseBlankLines(text, p + 1)

prettify_html(html_content) ==
    CollapseBlankLines(Concat(feed(Formatter, html_content, 1).formatted), 1)

----------------------------------------------------------------------------
(* Notes and their metadata *)

\* A metadata value of the top-concept field: absent (None), a YAML boolean
\* or a YAML string.
FlagNone    == [t |-> "none", b |-> FALSE, s |-> <<>>]
FlagBool(b) == [t |-> "bool", b |-> b,     s |-> <<>>]
FlagStr(s)  == [t |-> "str",  b |-> FALSE, s |-> s]

\* str(value)
PyStr(v) ==
    CASE v.t = "none" -> <<"N", "o", "n", "e">>
      [] v.t = "bool" -> IF v.b THEN <<"T", "r", "u", "e">> ELSE <<"F", "a", "l", "s", "e">>
      [] v.t = "str"  -> v.s

\* file_path.name of a note whose file_path.stem is `name`
FileName(name) == name \o <<".md">>

\* Path(filename).stem
Stem(filename) ==
    IF filename # <<>> /\ filename[Len(filename)] = ".md"
    THEN SubSeq(filename, 1, Len(filename) - 1) ELSE filename

\* The notes a directory can hold: name is the file's stem; loads says whether
\* frontmatter.load succeeds on it; key and flag are its concept-key and
\* top-concept metadata (None when absent); body is post.content; fails2 says
\* whether building or writing its page raises in pass two.
NoteSet(names, keys, flags, bodies) ==
    { r \in [name : names, loads : BOOLEAN, key : keys, flag : flags,
             body : bodies, fails2 : BOOLEAN] :
        /\ ~r.loads => (r.key = None /\ r.flag = FlagNone /\ r.body = <<>>)
        /\ r.fails2 => (r.loads /\ Truthy(r.key)) }

----------------------------------------------------------------------------
(* generate_concept_scheme *)

\* (mutant) str(fm.get('top-concept')) == 'true', without .lower()
IsTopConcept_CaseSensitive(fm) == PyStr(fm.top_concept) = <<"t", "r", "u", "e">>

\* str(fm.get('top-concept')).lower() == 'true'
IsTopConcept(fm) == Lower(PyStr(fm.top_concept)) = <<"t", "r", "u", "e">>

Warning(filename) == [msg |-> "Warning: Found 'top-concept' but missing 'concept-key'",
                      file |-> filename]

\* the for loop over all_concepts from entry n on: what it appends to
\* jsonld_links and to html_render_list, and the warnings it prints
RECURSIVE SchemeLoop(_, _)
SchemeLoop(concepts, n) ==
    IF n > Len(concepts) THEN [links |-> <<>>, render |-> <<>>, warnings |-> <<>>]
    ELSE LET concept == concepts[n]
             fm      == concept.frontmatter
             uuid    == fm.concept_key
             rest    == SchemeLoop(concepts, n + 1)
         IN  IF ~IsTopConcept(fm) THEN rest
             ELSE IF Truthy(uuid)
             THEN [rest EXCEPT
                     !.links  = <<[id |-> ConceptUri(uuid)]>> \o @,
                     !.render = <<[url |-> ConceptUri(uuid), name |-> Stem(concept.filename),
                                   uuid |-> uuid]>> \o @]
             ELSE [rest EXCEPT !.warnings = <<Warning(concept.filename)>> \o @]

\* scheme_data["@graph"][0] and the list handed to the template
SchemeDocument(concepts) ==
    [id            |-> SchemeUri,
     hasTopConcept |-> SchemeLoop(concepts, 1).links,
     top_concepts  |-> SchemeLoop(concepts, 1).render]

----------------------------------------------------------------------------
(* The build: main, pass_one_index_uuids, pass_two_build_site_and_collect *)

Msg(m) == [msg |-> m, file |-> <<>>]
FileMsg(m, f) == [msg |-> m, file |-> f]

get_files == IF srcExists THEN files ELSE <<>>

\* (mutant) the loop of pass one stops one file early
PassOneDone_StopsEarly == i >= Len(get_files)

\* the for loops over get_files() are at their end
PassOneDone == i > Len(get_files)
PassTwoDone == i > Len(get_files)

\* (mutant) concept_index.setdefault(title, uuid): the first-scanned note wins
IndexSet_KeepFirst(index, title, uuid) ==
    IF title \in DOMAIN index THEN index
    ELSE [k \in DOMAIN index \cup {title} |-> IF k = title THEN uuid ELSE index[k]]

\* concept_index[title] = uuid
IndexSet(index, title, uuid) ==
    [k \in DOMAIN index \cup {title} |-> IF k = title THEN uuid ELSE index[k]]

\* the body of pass one's loop for one note: the index after it
IndexNote(index, note) ==
    IF note.loads /\ Truthy(note.key)
    THEN IndexSet(index, Lower(note.name), note.key)
    ELSE index

\* main up to the source-directory test of pass_one_index_uuids
PassOneBegin ==
    /\ pc = "main"
    /\ IF srcExists
       THEN /\ pc' = "pass1"
            /\ log' = log \o <<Msg("Scanning files"), Msg("--- Building Index ---")>>
       ELSE /\ pc' = "pass2_begin"
            /\ log' = log \o <<Msg("Scanning files"), Msg("--- Building Index ---"),
                               Msg("ERROR: Source directory not found")>>
    /\ i' = 1
    /\ UNCHANGED <<srcExists, files, concept_index, all_concepts, outDir, pages, scheme>>
    /\ UNCHANGED <<typed, linkVars, noteVars, htmlVars>>

\* one iteration of pass one's loop
PassOneStep ==
    /\ pc = "pass1"
    /\ ~PassOneDone
    /\ LET note == get_files[i]
       IN  /\ concept_index' = IndexNote(concept_index, note)
           /\ log' = IF note.loads THEN log
                     ELSE Append(log, FileMsg("Error indexing", FileName(note.name)))
    /\ i' = i + 1
    /\ UNCHANGED <<pc, srcExists, files, all_concepts, outDir, pages, scheme>>
    /\ UNCHANGED <<typed, linkVars, noteVars, htmlVars>>

\* pass one returns to main
PassOneEnd ==
    /\ pc = "pass1"
    /\ PassOneDone
    /\ pc' = "pass2_begin"
    /\ UNCHANGED <<srcExists, files, i, concept_index, all_concepts, outDir, pages, scheme, log>>
    /\ UNCHANGED <<typed, linkVars, noteVars, htmlVars>>

\* pass two up to its loop: the concept template is loaded (this can fail),
\* then OUTPUT_DIR is created
PassTwoBegin ==
    /\ pc = "pass2_begin"
    /\ \E template_ok \in BOOLEAN :
         IF template_ok
         THEN /\ outDir' = TRUE
              /\ pc' = "pass2"
              /\ log' = Append(log, Msg("--- Generating Site & Collecting Data ---"))
         ELSE /\ outDir' = outDir
              /\ pc' = "main_scheme"
              /\ log' = log \o <<Msg("--- Generating Site & Collecting Data ---"),
                                 Msg("CRITICAL: Could not load 'skos_concept.html' template")>>
    /\ all_concepts' = <<>>
    /\ i' = 1
    /\ UNCHANGED <<srcExists, files, concept_index, pages, scheme>>
    /\ UNCHANGED <<typed, linkVars, noteVars, htmlVars>>

\* note_data of pass two
NoteData(note) ==
    [filename    |-> FileName(note.name),
     frontmatter |-> [concept_key |-> note.key, top_concept |-> note.flag],
     content     |-> note.body]

\* what template.render is given for a note (the page written is the external
\* template's rendering of it, re-serialized by prettify_html)
Page(note, index) ==
    LET secs == parse_sections(note.body)
    IN  [title             |-> note.name,
         uuid              |-> note.key,
         json_ld           |-> generate_skos_json(note.key, note.name, secs, index),
         html_main_content |-> render_html_main(secs, index),
         html_aside_content |-> render_html_aside(secs, index)]

\* open(OUTPUT_DIR / uuid / "index.html", "w").write(...)
WritePage(written, uuid, page) ==
    [u \in DOMAIN written \cup {uuid} |-> IF u = uuid THEN page ELSE written[u]]

\* one iteration of pass two's loop
PassTwoStep ==
    /\ pc = "pass2"
    /\ ~PassTwoDone
    /\ LET note == get_files[i]
       IN  IF ~note.loads
           THEN /\ log' = Append(log, FileMsg("Error processing", FileName(note.name)))
                /\ UNCHANGED <<all_concepts, pages>>
           ELSE /\ all_concepts' = Append(all_concepts, NoteData(note))
                /\ IF ~Truthy(note.key)
                   THEN UNCHANGED <<pages, log>>
                   ELSE IF note.fails2
                   THEN /\ log' = Append(log, FileMsg("Error processing", FileName(note.name)))
                        /\ UNCHANGED pages
                   ELSE /\ pages' = WritePage(pages, note.key, Page(note, concept_index))
                        /\ UNCHANGED log
    /\ i' = i + 1
    /\ UNCHANGED <<pc, srcExists, files, concept_index, outDir, scheme>>
    /\ UNCHANGED <<typed, linkVars, noteVars, htmlVars>>

\* pass two returns all_concepts_data to main
PassTwoEnd ==
    /\ pc = "pass2"
    /\ PassTwoDone
    /\ pc' = "main_scheme"
    /\ log' = Append(log, Msg("Build Complete"))
    /\ UNCHANGED <<srcExists, files, i, concept_index, all_concepts, outDir, pages, scheme>>
    /\ UNCHANGED <<typed, linkVars, noteVars, htmlVars>>

\* main after pass two: generate_concept_scheme when anything was collected
\* (its template can fail to load or render), the "No concepts" message otherwise
MainScheme ==
    /\ pc = "main_scheme"
    /\ pc' = "done"
    /\ IF all_concepts # <<>>
       THEN \E template_ok \in BOOLEAN :
              IF template_ok
              THEN /\ scheme' = <<SchemeDocument(all_concepts)>>
                   /\ outDir' = TRUE
                   /\ log' = log \o <<Msg("--- Generating Concept Scheme ---")>>
                                 \o SchemeLoop(all_concepts, 1).warnings
                                 \o <<Msg("Generated ConceptScheme")>>
              ELSE /\ log' = log \o <<Msg("--- Generating Concept Scheme ---")>>
                                 \o SchemeLoop(all_concepts, 1).warnings
                                 \o <<Msg("Error generating index.html")>>
                   /\ UNCHANGED <<scheme, outDir>>
       ELSE /\ log' = Append(log, Msg("No concepts found. Check SOURCE_DIR path."))
            /\ UNCHANGED <<scheme, outDir>>
    /\ UNCHANGED <<srcExists, files, i, concept_index, all_concepts, pages>>
    /\ UNCHANGED <<typed, linkVars, noteVars, htmlVars>>

Next ==
    \/ PassOneBegin
    \/ PassOneStep
    \/ PassOneEnd
    \/ PassTwoBegin
    \/ PassTwoStep
    \/ PassTwoEnd
    \/ MainScheme

\* main has not run, or is not part of the specification
BuildStart(fs, exists) ==
    /\ pc = "main"
    /\ srcExists = exists
    /\ files = fs
    /\ i = 1
    /\ concept_index = <<>>
    /\ all_concepts = <<>>
    /\ outDir = FALSE
    /\ pages = <<>>
    /\ scheme = <<>>
    /\ log = <<>>

\* the directory listings: up to `most` notes with distinct file names, in any order
FileLists(notes, most) ==
    UNION { { f \in [1..n -> notes] :
                \A a, b \in 1..n : a # b => f[a].name # f[b].name } : n \in 0..most }

----------------------------------------------------------------------------
(* Idle values of the variables a specification does not use *)

TypedIdle == typed = 0
LinkIdle == line = <<>> /\ linked = <<>>
NoteIdle == frags = {} /\ content = <<>> /\ sections = <<>> /\ skos = <<>> /\ html = <<>>
HtmlIdle == markup = <<>> /\ pretty = <<>> /\ scan = Formatter /\ fed = 0
BuildIdle ==
    /\ pc = "off" /\ srcExists = FALSE /\ files = <<>> /\ i = 1 /\ all_concepts = <<>>
    /\ outDir = FALSE /\ pages = <<>> /\ scheme = <<>> /\ log = <<>>

----------------------------------------------------------------------------
(* Spec: the build over every directory of up to MaxNotes notes *)

MaxNotes == 2

Names == {<<"A">>, <<"a">>, <<"B">>}
Keys == {None, "u1", "u2"}

\* a body with a relation section whose lines refer to the titles A/a and B
BodyWithLinks ==
    <<"#", " ", "Broader", "\n", "-", " ", "[", "[", "A", "]", "]", "\n",
      "[", "[", "B", "]", "]">>

BuildNotes == NoteSet(Names, Keys, {FlagNone, FlagBool(TRUE)}, {<<>>, BodyWithLinks})

Init ==
    /\ \/ \E fs \in FileLists(BuildNotes, MaxNotes) : BuildStart(fs, TRUE)
       \/ BuildStart(<<>>, FALSE)
    /\ TypedIdle /\ LinkIdle /\ NoteIdle /\ HtmlIdle

Spec == Init /\ [][Next]_vars

----------------------------------------------------------------------------
(* Claims about the build *)

\* the notes of get_files() that pass one has scanned so far
Scanned ==
    IF pc = "main" THEN 0
    ELSE IF pc = "pass1" THEN i - 1
    ELSE Len(get_files)

\* the scanned notes that load and carry a non-empty identifier
Identified == { n \in 1..Scanned : get_files[n].loads /\ Truthy(get_files[n].key) }

\* the index pass one builds over the first n notes of fs
RECURSIVE IndexAfter(_, _)
IndexAfter(fs, n) == IF n = 0 THEN <<>> ELSE IndexNote(IndexAfter(fs, n - 1), fs[n])

\* the identifiers a text links to with an internal-link anchor
AnchorIds(text) ==
    { text[k + 4] : k \in { k \in 1..Len(text) :
        /\ k + 6 <= Len(text)
        /\ text[k] = "<a href=\""
        /\ text[k + 6] = "\" class=\"internal-link\">" } }

\* the identifiers the broader/narrower/related URIs of a graph node refer to
GraphIds(json_ld) ==
    UNION { LET v == json_ld.val[prop]
            IN  IF v.kind = "str" THEN {v.str[5]}
                ELSE { v.list[k][5] : k \in 1..Len(v.list) } :
            prop \in {"skos:broader", "skos:narrower", "skos:related"} \cap DOMAIN json_ld.val }

LinkedIds(page) ==
    AnchorIds(page.html_main_content) \cup AnchorIds(page.html_aside_content)
        \cup GraphIds(page.json_ld)

\* C1: the index pass finishes over all notes before the render pass looks
\* anything up (whenever pass two runs, the Link Index is the index of all
\* notes), and the Link Index is never written once pass one is over.
C1_IndexCompleteBeforeLookups ==
    [][ /\ (pc = "pass2" => concept_index = IndexAfter(get_files, Len(get_files)))
        /\ (pc \notin {"main", "pass1"} => concept_index' = concept_index) ]_vars

\* C1 (witness): pass two has written a page with a resolved link while the
\* index holds two entries
C1_Witness ==
    /\ pc = "pass2"
    /\ Cardinality(DOMAIN concept_index) = 2
    /\ \E u \in DOMAIN pages : LinkedIds(pages[u]) # {}

\* C2 (as claimed): every scanned note with an identifier has its identifier
\* exactly once in the index, under its lower-cased title, and the index has
\* one entry per such note and none for the others.
C2_OneEntryPerNote ==
    /\ \A n \in Identified :
         /\ Lower(get_files[n].name) \in DOMAIN concept_index
         /\ concept_index[Lower(get_files[n].name)] = get_files[n].key
         /\ Cardinality({ k \in DOMAIN concept_index : concept_index[k] = get_files[n].key }) = 1
    /\ Cardinality(DOMAIN concept_index) = Cardinality(Identified)

\* the last-scanned identified note with the lower-cased title of note n
LastWithTitle(n) ==
    CHOOSE m \in Identified :
        /\ Lower(get_files[m].name) = Lower(get_files[n].name)
        /\ \A o \in Identified :
             Lower(get_files[o].name) = Lower(get_files[n].name) => o <= m

\* C2 (amended): the keys of the index are exactly the lower-cased titles of
\* the scanned notes with an identifier, each mapped to the identifier of the
\* last-scanned such note with that lower-cased title; a note without an
\* identifier contributes no entry.
C2_LastScannedWins ==
    /\ DOMAIN concept_index = { Lower(get_files[n].name) : n \in Identified }
    /\ \A n \in Identified :
         concept_index[Lower(get_files[n].name)] = get_files[LastWithTitle(n)].key

\* C2 (witness): pass one is over and two notes with identifiers collided on
\* their lower-cased title
C2_Witness ==
    /\ pc = "pass2_begin"
    /\ \E n, m \in Identified :
         /\ n < m
         /\ Lower(get_files[n].name) = Lower(get_files[m].name)
         /\ get_files[n].key # get_files[m].key

\* C4 (as claimed): when the build is over, every internal-link anchor of a
\* written page and every relation URI of its graph node refers to an
\* identifier for which the build wrote a page.
C4_NoBrokenLinks ==
    pc = "done" => \A u \in DOMAIN pages : LinkedIds(pages[u]) \subseteq DOMAIN pages

\* note n of the directory raises in one of the passes
Fails(n) == ~files[n].loads \/ files[n].fails2

\* no other note of the directory carries the identifier of note n
OwnIdentifier(n) == \A m \in 1..Len(files) : m # n => files[m].key # files[n].key

\* the messages printed about a file
LoggedAbout(filename) == { log[k].msg : k \in { k \in 1..Len(log) : log[k].file = filename } }

\* C11 (as claimed): once the build is over, every note that raised in a pass
\* is logged and has no index entry, no page (the graph node is part of the
\* page) and no scheme entry, every note that did not raise and has an
\* identifier has its page, and the scheme generation was entered.
C11_FailedNoteExcluded ==
    (pc = "done" /\ srcExists /\ Msg("Build Complete") \in { log[k] : k \in 1..Len(log) }) =>
      /\ \A n \in 1..Len(files) :
           Fails(n) =>
             /\ LoggedAbout(FileName(files[n].name)) \cap {"Error indexing", "Error processing"} # {}
             /\ (Truthy(files[n].key) /\ OwnIdentifier(n)) =>
                  /\ \A t \in DOMAIN concept_index : concept_index[t] # files[n].key
                  /\ files[n].key \notin DOMAIN pages
                  /\ scheme # <<>> =>
                       \A k \in 1..Len(scheme[1].hasTopConcept) :
                         scheme[1].hasTopConcept[k].id[5] # files[n].key
      /\ \A n \in 1..Len(files) :
           (~Fails(n) /\ Truthy(files[n].key)) => files[n].key \in DOMAIN pages
      /\ all_concepts # <<>> =>
           Msg("--- Generating Concept Scheme ---") \in { log[k] : k \in 1..Len(log) }

\* C12 (as claimed): when the source directory is absent or the concept
\* template cannot be loaded, no later phase runs and nothing is written: the
\* render pass is not entered, and no output directory, page or scheme exists.
C12_FatalErrorAborts ==
    LET fatal == \/ ~srcExists /\ pc # "main"
                 \/ Msg("CRITICAL: Could not load 'skos_concept.html' template")
                      \in { log[k] : k \in 1..Len(log) }
    IN  fatal => /\ pc \notin {"pass1", "pass2"}
                 /\ outDir = FALSE
                 /\ pages = <<>>
                 /\ scheme = <<>>
                 /\ Msg("Build Complete") \notin { log[k] : k \in 1..Len(log) }

----------------------------------------------------------------------------
(* SpecScheme: the build over notes with every kind of top-concept flag *)

SchemeNames == {<<"A">>, <<"B">>, <<"C">>}
SchemeKeys == {None, "", "u1"}

\* top-concept values: absent, booleans, and strings that are or are not
\* "true" up to case
SchemeFlags ==
    { FlagNone, FlagBool(TRUE), FlagBool(FALSE),
      FlagStr(<<"t", "r", "u", "e">>), FlagStr(<<"T", "R", "U", "E">>),
      FlagStr(<<"y", "e", "s">>) }

SchemeNotes == NoteSet(SchemeNames, SchemeKeys, SchemeFlags, {<<>>})

InitScheme ==
    /\ \E fs \in FileLists(SchemeNotes, MaxNotes) : BuildStart(fs, TRUE)
    /\ TypedIdle /\ LinkIdle /\ NoteIdle /\ HtmlIdle

SpecScheme == InitScheme /\ [][Next]_vars

\* the flag is the boolean true, or a string equal to "true" ignoring case
FlagIsTrue(flag) ==
    \/ flag.t = "bool" /\ flag.b
    \/ /\ flag.t = "str"
       /\ Len(flag.s) = 4
       /\ flag.s[1] \in {"t", "T"} /\ flag.s[2] \in {"r", "R"}
       /\ flag.s[3] \in {"u", "U"} /\ flag.s[4] \in {"e", "E"}

\* the collected note has an identifier
HasIdentifier(concept) == concept.frontmatter.concept_key \notin {None, ""}

TopConcepts ==
    SelectSeq(all_concepts,
              LAMBDA c : FlagIsTrue(c.frontmatter.top_concept) /\ HasIdentifier(c))

Unidentified ==
    SelectSeq(all_concepts,
              LAMBDA c : FlagIsTrue(c.frontmatter.top_concept) /\ ~HasIdentifier(c))

WarningsLogged ==
    SelectSeq(log, LAMBDA m : m.msg = "Warning: Found 'top-concept' but missing 'concept-key'")

\* C7: hasTopConcept of the scheme node has exactly one {"@id": uri} entry per
\* collected note whose top-concept flag is true (boolean, or the string
\* "true" ignoring case) and that has an identifier, and none for any other
\* note; each flagged note without an identifier is warned about instead.
C7_TopConceptsListed ==
    /\ scheme # <<>> =>
         scheme[1].hasTopConcept =
           [k \in 1..Len(TopConcepts) |->
              [id |-> <<"https://vernacular.cloud", "/", "0.0.1", "/",
                        TopConcepts[k].frontmatter.concept_key, "/">>]]
    /\ (pc = "done" /\ all_concepts # <<>>) =>
         WarningsLogged =
           [k \in 1..Len(Unidentified) |->
              [msg  |-> "Warning: Found 'top-concept' but missing 'concept-key'",
               file |-> Unidentified[k].filename]]

\* C7 (witness): a scheme was generated from two collected notes, one flagged
\* with the string "TRUE" and identified, the other flagged with the boolean
\* true and without an identifier
C7_Witness ==
    /\ scheme # <<>>
    /\ pc = "done"
    /\ Len(all_concepts) = 2
    /\ \E a, b \in 1..2 :
         /\ all_concepts[a].frontmatter.top_concept = FlagStr(<<"T", "R", "U", "E">>)
         /\ all_concepts[a].frontmatter.concept_key = "u1"
         /\ all_concepts[b].frontmatter.top_concept = FlagBool(TRUE)
         /\ all_concepts[b].frontmatter.concept_key = None

----------------------------------------------------------------------------
(* SpecLinks: process_text_links on every line of up to MaxFrags pieces, *)
(* under an index as pass one builds it                                   *)

MaxFrags == 4

LinkFrags ==
    { <<"[", "[">>, <<"]", "]">>, <<"|">>, <<"[">>, <<"]", "(", "u", ")">>,
      <<"[", "a", "]", "(", "u", ")">>, <<"a">>, <<"B">>, <<" ">>, <<"!">> }

\* indexes pass one can build: lower-cased titles mapped to identifiers
LinkIndexes ==
    { <<>>, (<<"a">> :> "u1"), (<<"a">> :> "u1") @@ (<<"b">> :> "u2") }

\* a piece is appended to the line
TypeFrag ==
    /\ pc = "off"
    /\ linked = <<>>
    /\ typed < MaxFrags
    /\ \E f \in LinkFrags : line' = line \o f
    /\ typed' = typed + 1
    /\ UNCHANGED <<buildVars, linked, noteVars, htmlVars>>

\* process_text_links(line)
ProcessLine ==
    /\ pc = "off"
    /\ linked = <<>>
    /\ linked' = <<process_text_links(line, concept_index)>>
    /\ UNCHANGED <<buildVars, typed, line, noteVars, htmlVars>>

InitLinks ==
    /\ BuildIdle /\ concept_index \in LinkIndexes
    /\ TypedIdle /\ LinkIdle /\ NoteIdle /\ HtmlIdle

NextLinks == TypeFrag \/ ProcessLine

SpecLinks == InitLinks /\ [][NextLinks]_vars

\* no bracket or parenthesis in a text
Plain(t) == \A k \in 1..Len(t) : t[k] \notin {"[", "]", "(", ")"}

\* C3 (as claimed): for a cross-reference token [[...]] between plain text
\* whose normalized target is not a key of the index, the line renders as the
\* text before it, the token's display text, and the text after it: the
\* token becomes exactly its display text, with no anchor markup.
C3_MissRendersDisplayText ==
    linked # <<>> =>
      \A p \in 1..Len(line) :
        LET q     == WikiMatch(line, p)
            inner == SubSeq(line, p + 2, q - 1)
            pre   == SubSeq(line, 1, p - 1)
            post  == SubSeq(line, q + 2, Len(line))
        IN  ( /\ q > 0
              /\ Plain(pre) /\ Plain(post)
              /\ Lower(Strip(LinkTarget(inner))) \notin DOMAIN concept_index )
            => linked[1] = pre \o LinkLabel(inner) \o post

\* the external-link substitution on a stretch of the line that the
\* cross-reference pass left alone; prev is the character before it in the
\* text that pass produced (only the "!" of the look-behind matters)
OutsideTokens(seg, prev) ==
    IF prev = "!" THEN Tail(MdSub(<<"!">> \o seg, 1)) ELSE MdSub(seg, 1)

\* the last character of prev followed by text
LastOf(prev, text) == IF text = <<>> THEN prev ELSE text[Len(text)]

\* the line from position p on with each pass confined to its own text: every
\* cross-reference token replaced by what wiki_link_sub returns for it, and
\* the external-link substitution applied to each stretch between tokens
RECURSIVE PassesApart(_, _, _, _)
PassesApart(s, p, prev, index) ==
    LET m == WikiSearch(s, p)
    IN  IF p > Len(s) THEN <<>>
        ELSE IF m = 0 THEN OutsideTokens(SubSeq(s, p, Len(s)), prev)
        ELSE LET seg      == SubSeq(s, p, m - 1)
                 q        == WikiMatch(s, m)
                 produced == wiki_link_sub(SubSeq(s, m + 2, q - 1), index)
             IN  OutsideTokens(seg, prev) \o produced
                     \o PassesApart(s, q + 2, LastOf(LastOf(prev, seg), produced), index)

\* C13 (as claimed): the external-link pass matches and rewrites nothing that
\* the cross-reference pass produced: the result is each token's anchor (hit)
\* or display text (miss) as produced, between the stretches of the line
\* outside the tokens with their external links rewritten.
C13_FirstPassOutputKept ==
    linked # <<>> => linked[1] = PassesApart(line, 1, "", concept_index)

----------------------------------------------------------------------------
(* SpecSkos, SpecSections: one note body of up to MaxLines lines through  *)
(* parse_sections, generate_skos_json and the renderers, as pass two does; *)
(* SpecRender: render_section_to_html on up to MaxLines raw lines          *)

MaxLines == 4

\* the index of a directory with the notes A.md (u1) and B.md (u2)
NoteIndex == (<<"a">> :> "u1") @@ (<<"b">> :> "u2")

NOTE_UUID == "u0"
NOTE_TITLE == <<"T">>

SkosFrags ==
    { <<"#", " ", "Broader">>, <<"#", " ", "Related">>,
      <<"#", " ", "Alternative", " ", "Label">>,
      <<"[", "[", "A", "]", "]">>, <<"-", " ", "[", "[", "b", "]", "]">>,
      <<"[", "[", "z", "]", "]">>,
      <<"-", " ", "p">>, <<"*", " ", "q">>, <<"+", " ", "r">> }

SectionFrags ==
    { <<"#", " ", "X">>, <<"#", " ", "Y", " ">>, <<"#", " ">>, <<"#", "X">>,
      <<"#", "#", " ", "s">>, <<"l">>, <<" ", "m", " ">>, <<>> }

RenderFrags ==
    { <<"-", " ", "a">>, <<"*", " ", "[", "[", "A", "]", "]">>, <<" ", "+", " ", "b", " ">>,
      <<"p">>, <<"-", "q">>, <<"#", "#", " ", "h">>, <<>>, <<" ">> }

\* a line is appended to the body
TypeLine ==
    /\ pc = "off"
    /\ sections = <<>> /\ html = <<>>
    /\ typed < MaxLines
    /\ \E f \in frags : content' = IF typed = 0 THEN f ELSE content \o <<"\n">> \o f
    /\ typed' = typed + 1
    /\ UNCHANGED <<buildVars, linkVars, frags, sections, skos, html, htmlVars>>

\* sections = parse_sections(post.content)
ParseNote ==
    /\ pc = "off"
    /\ sections = <<>>
    /\ sections' = <<parse_sections(content)>>
    /\ UNCHANGED <<buildVars, typed, linkVars, frags, content, skos, html, htmlVars>>

\* skos_data = generate_skos_json(uuid, title, sections)
EmitGraph ==
    /\ pc = "off"
    /\ sections # <<>> /\ skos = <<>>
    /\ skos' = <<generate_skos_json(NOTE_UUID, NOTE_TITLE, sections[1], concept_index)>>
    /\ UNCHANGED <<buildVars, typed, linkVars, frags, content, sections, html, htmlVars>>

\* html_main = render_html_main(sections); html_aside = render_html_aside(sections)
RenderNote ==
    /\ pc = "off"
    /\ skos # <<>> /\ html = <<>>
    /\ html' = <<[main  |-> render_html_main(sections[1], concept_index),
                  aside |-> render_html_aside(sections[1], concept_index)]>>
    /\ UNCHANGED <<buildVars, typed, linkVars, frags, content, sections, skos, htmlVars>>

\* render_section_to_html(lines) on the raw lines
RenderSection ==
    /\ pc = "off"
    /\ html = <<>>
    /\ html' = <<render_section_to_html(Split(content, "\n"), concept_index)>>
    /\ UNCHANGED <<buildVars, typed, linkVars, frags, content, sections, skos, htmlVars>>

NoteStart(fs) ==
    /\ BuildIdle /\ concept_index = NoteIndex
    /\ TypedIdle /\ LinkIdle /\ HtmlIdle
    /\ frags = fs /\ content = <<>> /\ sections = <<>> /\ skos = <<>> /\ html = <<>>

NextNote == TypeLine \/ ParseNote \/ EmitGraph \/ RenderNote

NextRender == TypeLine \/ RenderSection

SpecSkos == NoteStart(SkosFrags) /\ [][NextNote]_vars

SpecSections == NoteStart(SectionFrags) /\ [][NextNote]_vars

SpecRender == NoteStart(RenderFrags) /\ [][NextRender]_vars

----------------------------------------------------------------------------
(* Claims about generate_skos_json *)

RelationHeaders == {H_Broader, H_Narrower, H_Related}

\* the line's target, as the emitter takes it, is a key of the index
Resolvable(ln) == Lower(clean_link_text(ln)) \in DOMAIN concept_index

\* {domain}/{version}/{identifier}/ for the identifier the line resolves to
LineUri(ln) ==
    <<"https://vernacular.cloud", "/", "0.0.1", "/",
      concept_index[Lower(clean_link_text(ln))], "/">>

\* the URIs of the resolvable lines of a section, in line order
ResolvedUris(lines) ==
    LET kept == SelectSeq(lines, Resolvable)
    IN  [k \in 1..Len(kept) |-> LineUri(kept[k])]

\* C5: for each section Broader, Narrower, Related of the note, the predicate
\* is absent when no line resolves, the scalar URI when exactly one line
\* resolves, and the list of the URIs in line order when two or more do.
C5_RelationCardinality ==
    skos # <<>> =>
      \A h \in RelationHeaders :
        LET uris == ResolvedUris(SectionLines(sections[1], h))
            prop == HEADER_TO_SKOS(h)
        IN  CASE Len(uris) = 0 -> prop \notin DOMAIN skos[1].val
              [] Len(uris) = 1 -> /\ prop \in DOMAIN skos[1].val
                                  /\ skos[1].val[prop] = [kind |-> "str", str |-> uris[1], list |-> <<>>]
              [] OTHER         -> /\ prop \in DOMAIN skos[1].val
                                  /\ skos[1].val[prop] = [kind |-> "list", str |-> <<>>, list |-> uris]

\* C5 (witness): the graph node was emitted for a note whose Broader section
\* has three lines of which two resolve
C5_Witness ==
    /\ skos # <<>>
    /\ Len(SectionLines(sections[1], H_Broader)) = 3
    /\ Len(ResolvedUris(SectionLines(sections[1], H_Broader))) = 2

\* a line without its leading bullet marker ("-", "*" or "+" and the
\* whitespace after it), trimmed
WithoutBullet(ln) ==
    IF Len(ln) >= 2 /\ ln[1] \in {"-", "*", "+"} /\ IsSpace(ln[2])
    THEN Strip(SubSeq(ln, 2, Len(ln)))
    ELSE Strip(ln)

\* C6 (as claimed): for a non-empty Alternative Label section, altLabel is a
\* list with one element per line, each the line without its leading bullet
\* marker and trimmed, whichever of "-", "*", "+" the marker is.
C6_AltLabelStripsBullets ==
    (skos # <<>> /\ SectionLines(sections[1], H_AltLabel) # <<>>) =>
      LET lines == SectionLines(sections[1], H_AltLabel)
      IN  /\ "skos:altLabel" \in DOMAIN skos[1].val
          /\ skos[1].val["skos:altLabel"] =
               [kind |-> "list", str |-> <<>>,
                list |-> [k \in 1..Len(lines) |-> WithoutBullet(lines[k])]]

----------------------------------------------------------------------------
(* Claims about parse_sections *)

BodyLines == Split(content, "\n")

\* line n of the body is a single-level heading: "#", then whitespace
IsHeading(n) ==
    Len(BodyLines[n]) >= 2 /\ BodyLines[n][1] = "#" /\ IsSpace(BodyLines[n][2])

\* the trimmed text of heading n
HeadingText(n) == Strip(Tail(BodyLines[n]))

\* the first heading after line n, or the line after the last one
NextHeading(n) ==
    IF \E m \in (n + 1)..Len(BodyLines) : IsHeading(m)
    THEN CHOOSE m \in (n + 1)..Len(BodyLines) :
           IsHeading(m) /\ \A o \in (n + 1)..(m - 1) : ~IsHeading(o)
    ELSE Len(BodyLines) + 1

\* the non-blank lines from line a to line b, trimmed, in order
RECURSIVE NonBlankLines(_, _)
NonBlankLines(a, b) ==
    IF a > b THEN <<>>
    ELSE (IF Strip(BodyLines[a]) = <<>> THEN <<>> ELSE <<Strip(BodyLines[a])>>)
             \o NonBlankLines(a + 1, b)

\* C9 (as claimed): the keys are exactly the trimmed heading texts, and each
\* key maps to the non-blank lines between the last heading with that text
\* and the next heading (so lines before the first heading are in no section).
C9_SectionsFollowHeadings ==
    sections # <<>> =>
      LET headings == { n \in 1..Len(BodyLines) : IsHeading(n) }
      IN  /\ { sections[1].keys[k] : k \in 1..Len(sections[1].keys) }
               = { HeadingText(n) : n \in headings }
          /\ \A n \in headings :
               (\A m \in headings : HeadingText(m) = HeadingText(n) => m <= n)
                 => sections[1].val[HeadingText(n)] = NonBlankLines(n + 1, NextHeading(n) - 1)

----------------------------------------------------------------------------
(* Claims about render_section_to_html *)

\* the elements of the rendered section: html_parts, recovered from the joined text
RenderedParts == IF html[1] = <<>> THEN <<>> ELSE Split(html[1], "\n")

IsItem(part) == part # <<>> /\ part[1] = "<li>"
IsBlock(part) == part # <<>> /\ part[1] \in {"<h3>", "<p>"}
IsContainerTag(part) == part = <<"<ul>">> \/ part = <<"</ul>">>

\* the non-blank input lines, trimmed, in input order
InputLines == NonBlankLines(1, Len(BodyLines))

\* a trimmed line is a bullet line: a marker "-", "*" or "+", then whitespace
IsBulletLine(ln) == Len(ln) >= 2 /\ ln[1] \in {"-", "*", "+"} /\ IsSpace(ln[2])

\* the letters of a text, in order: what a line says, whatever its markup
Letters(t) == SelectSeq(t, LAMBDA c : c \in {"a", "b", "h", "p", "q", "A"})

\* C8: the output has one element per non-blank line, in input order (a list
\* item carrying the line's letters for a bullet line, a sub-heading or
\* paragraph carrying them otherwise), and the list
\* containers are well formed: a container opens right before the first item
\* of a run and never after an item or a closed container, every item is
\* inside a container, a container closes right after the last item of a run
\* and only at the end or before a sub-heading or paragraph.
C8_ListsWellFormed ==
    html # <<>> =>
      LET parts    == RenderedParts
          elements == SelectSeq(parts, LAMBDA x : ~IsContainerTag(x))
          n        == Len(parts)
      IN  /\ Len(elements) = Len(InputLines)
          /\ \A k \in 1..Len(elements) :
               /\ IsItem(elements[k]) <=> IsBulletLine(InputLines[k])
               /\ Letters(elements[k]) = Letters(InputLines[k])
          /\ \A k \in 1..n :
               /\ parts[k] = <<"<ul>">> =>
                    /\ k < n /\ IsItem(parts[k + 1])
                    /\ (k > 1 => IsBlock(parts[k - 1]))
               /\ IsItem(parts[k]) =>
                    /\ k > 1 /\ (parts[k - 1] = <<"<ul>">> \/ IsItem(parts[k - 1]))
                    /\ k < n /\ (parts[k + 1] = <<"</ul>">> \/ IsItem(parts[k + 1]))
               /\ parts[k] = <<"</ul>">> =>
                    /\ k > 1 /\ IsItem(parts[k - 1])
                    /\ (k < n => IsBlock(parts[k + 1]))
               /\ (IsBlock(parts[k]) /\ k > 1) =>
                    (IsBlock(parts[k - 1]) \/ parts[k - 1] = <<"</ul>">>)

\* C8 (witness): a rendered section with two list containers around a paragraph
C8_Witness ==
    /\ html # <<>>
    /\ \E a, b, c \in 1..Len(RenderedParts) :
         /\ a < b /\ b < c
         /\ RenderedParts[a] = <<"</ul>">>
         /\ IsBlock(RenderedParts[b])
         /\ RenderedParts[c] = <<"<ul>">>

----------------------------------------------------------------------------
(* SpecRelation: one note whose body has relation sections only, with the *)
(* ways a relation line can name its target, through pass two's calls     *)

RelationFrags ==
    { <<"#", " ", "Broader">>, <<"#", " ", "Related">>,
      <<"[", "[", "a", "]", "]">>, <<"-", " ", "[", "[", "b", "]", "]">>,
      <<"[", "[", "a", "|", "l", "]", "]">>, <<"[", "[", " ", "a", " ", "]", "]">>,
      <<"a">>, <<"-", " ", "b">>, <<"[", "[", "z", "]", "]">> }

SpecRelation == NoteStart(RelationFrags) /\ [][NextNote]_vars

\* every section of the note is a Broader, Narrower or Related section
OnlyRelationSections ==
    \A k \in 1..Len(sections[1].keys) : sections[1].keys[k] \in RelationHeaders

\* C15 (as claimed): page and graph resolve the relation lines of a note alike:
\* the identifiers the graph node's broader/narrower/related URIs refer to
\* are the identifiers the page's internal-link anchors refer to.
C15_PageAndGraphAgree ==
    (skos # <<>> /\ html # <<>> /\ OnlyRelationSections) =>
      GraphIds(skos[1]) = AnchorIds(html[1].main) \cup AnchorIds(html[1].aside)

----------------------------------------------------------------------------
(* SpecHtml: prettify_html on every markup of up to MaxTokens tags,        *)
(* declarations, comments and characters, and then on its own output      *)

MaxTokens == 4

HtmlAtoms == StartTags \cup EndTags \cup Decls \cup Comments \cup {"x", " ", "\n"}

\* a tag, declaration, comment or character is appended to the markup
TypeMarkup ==
    /\ pc = "off"
    /\ pretty = <<>> /\ fed = 0
    /\ typed < MaxTokens
    /\ \E a \in HtmlAtoms : markup' = Append(markup, a)
    /\ typed' = typed + 1
    /\ UNCHANGED <<buildVars, linkVars, noteVars, pretty, scan, fed>>

\* final_html = prettify_html(raw_html)
Prettify ==
    /\ pc = "off"
    /\ pretty = <<>>
    /\ pretty' = <<prettify_html(markup)>>
    /\ UNCHANGED <<buildVars, typed, linkVars, noteVars, markup, scan, fed>>

\* prettify_html on the output of prettify_html
PrettifyAgain ==
    /\ pc = "off"
    /\ Len(pretty) = 1
    /\ pretty' = Append(pretty, prettify_html(pretty[1]))
    /\ UNCHANGED <<buildVars, typed, linkVars, noteVars, markup, scan, fed>>

InitHtml ==
    /\ BuildIdle /\ concept_index = <<>>
    /\ TypedIdle /\ LinkIdle /\ NoteIdle /\ HtmlIdle

NextHtml == TypeMarkup \/ Prettify \/ PrettifyAgain

SpecHtml == InitHtml /\ [][NextHtml]_vars

\* C10 (as claimed): prettify_html(prettify_html(x)) = prettify_html(x) for
\* every markup x of tags, text, comments and declarations.
C10_PrettifyIdempotent ==
    Len(pretty) = 2 => pretty[2] = pretty[1]

----------------------------------------------------------------------------
(* SpecScan: a SmartHTMLFormatter fed a markup of up to MaxTokens tags,    *)
(* declarations, comments and characters, one handler call at a time      *)

\* where the token that starts at position p ends: a tag, declaration or
\* comment is one token, a run of character data is one token
TokenEnd(text, p) == IF IsMarkup(text[p]) THEN p ELSE DataEnd(text, p) - 1

\* the handler HTMLParser calls for the token at positions p..e
HandleToken(self, text, p, e) ==
    LET a == text[p]
    IN  IF a \in StartTags THEN handle_starttag(self, a)
        ELSE IF a \in EndTags THEN handle_endtag(self, a)
        ELSE IF a \in Decls THEN handle_decl(self, a)
        ELSE IF a \in Comments THEN handle_comment(self, a)
        ELSE handle_data(self, SubSeq(text, p, e))

\* formatter.feed(html_content) reaches its next token and calls its handler
ScanToken ==
    /\ pc = "off"
    /\ pretty = <<>>
    /\ fed < Len(markup)
    /\ LET e == TokenEnd(markup, fed + 1)
       IN  /\ scan' = HandleToken(scan, markup, fed + 1, e)
           /\ fed' = e
    /\ UNCHANGED <<buildVars, typed, linkVars, noteVars, markup, pretty>>

NextScan == TypeMarkup \/ ScanToken

SpecScan == InitHtml /\ [][NextScan]_vars

\* the block elements that are not void, by their open and close tags
BlockOpen == {"<div>"}
BlockClose == {"</div>"}

\* the number of block elements open after the first n atoms of the markup
RECURSIVE OpenBlocks(_)
OpenBlocks(n) ==
    IF n = 0 THEN 0
    ELSE OpenBlocks(n - 1)
           + (IF markup[n] \in BlockOpen THEN 1 ELSE 0)
           - (IF markup[n] \in BlockClose THEN 1 ELSE 0)

\* every close tag of a block element closes an open one, and none stays open
ProperlyNested ==
    /\ \A n \in 0..Len(markup) : OpenBlocks(n) >= 0
    /\ OpenBlocks(Len(markup)) = 0

\* C14: while the formatter scans a markup whose block tags are properly
\* nested, its depth after every handler call is the number of block elements
\* open at that point (so void block elements, content tags, inline tags,
\* text, comments and declarations leave it alone), it is never negative, and
\* it is zero when the scan is over.
C14_DepthCountsOpenBlocks ==
    ProperlyNested =>
      /\ scan.level = OpenBlocks(fed)
      /\ scan.level >= 0
      /\ fed = Len(markup) => scan.level = 0

\* C14 (witness): the scan is inside two nested block elements of a properly
\* nested markup, or has passed a void block element inside one
C14_Witness ==
    /\ ProperlyNested
    /\ \/ fed = 2 /\ scan.level = 2
       \/ fed = 2 /\ scan.level = 1 /\ markup[1] = "<div>" /\ markup[2] = "<meta>"

============================================================================
